---- MODULE Spec2Model ----
(***************************************************************************)
(* A model of the wizclaw bridge daemon's relay client                     *)
(* (src/bridge/client.py, BridgeClient) together with the part of the      *)
(* local-agent HTTP wrapper it calls (src/bridge/openclaw.py).             *)
(*                                                                         *)
(* One coroutine runs BridgeClient.run().  pc is the await at which it is  *)
(* suspended:                                                              *)
(*   "connect"  entering websockets.connect(...)           (client.py:61)  *)
(*   "status"   awaiting ahealth_check() in _send_status   (client.py:127) *)
(*   "recv"     awaiting the next frame of `async for`     (client.py:65)  *)
(*   "aquery"   awaiting openclaw.aquery(query)            (client.py:107) *)
(*   "sleep"    awaiting asyncio.sleep(backoff)            (client.py:50)  *)
(*   "raised"   an exception has left run()                                *)
(* The remote end, the network and the local agent are the environment.    *)
(*                                                                         *)
(* The model also covers the supervisor of the local agent's process       *)
(* (src/bridge/launcher.py, OpenClawLauncher) and the command that runs    *)
(* the daemon (src/bridge/cli.py, cmd_run).  lpc is the place of the       *)
(* supervisor inside start():                                              *)
(*   "idle"     no call of the supervisor is in progress                   *)
(*   "check"    at the head of the loop of _wait_until_ready (launcher.py: *)
(*              128-130)                                                   *)
(*   "probe"    before is_running() in that loop           (launcher.py:141)*)
(* dpc is the place of cmd_run:                                            *)
(*   "ensure"   before launcher.ensure_running()           (cli.py:307)    *)
(*   "loop"     inside asyncio.run(client.run())           (cli.py:336)    *)
(*   "exited"   the daemon process has exited                              *)
(*   "api"      no cmd_run: the supervisor's methods are called in any     *)
(*              order by an arbitrary caller                               *)
(* The processes, the agent's port and the PATH are the environment.       *)
(***************************************************************************)
EXTENDS Integers, Sequences, FiniteSets

VARIABLES
    reconnect_max,  \* self.reconnect_max, read from the configuration
    backoff,        \* the local variable backoff of run()
    pc,             \* the await the coroutine is suspended at
    conn,           \* the websocket: "none", "open", or the close code received
    inbox,          \* frames received on the websocket and not yet iterated
    arrived,        \* number of frames the remote has sent on this websocket
    sent,           \* frames written with ws.send() on this websocket, in order
    cur,            \* request_id of the tool request whose aquery is awaited
    escaped,        \* the exception that left run(), "none" while it runs
    cause,          \* history: why the latest sleep was entered
    prevCause,      \* history: cause of the sleep before the latest one
    prevSleep,      \* history: duration of the sleep before the latest one
    cleanSeen,      \* history: some clean disconnect happened since start
    last,           \* history: the frame _handle_message was last called with
    answered,       \* history: the agent's answer to the latest aquery
    health,         \* history: result of the health check made on this websocket
    process,        \* self._process: NoProcess or the child it refers to
    stderr_file,    \* self._stderr_file: "none" or "open"
    children,       \* the processes Popen has started, each "starting",
                    \* "serving" or "exited"
    external,       \* an agent nobody here started serves the port
    exe,            \* the openclaw executable is on the PATH
    lpc,            \* the place of the supervisor inside start()
    call,           \* the supervisor method called last, or in progress
    ticks,          \* sleeps of the polling loop of the start in progress
    ret,            \* what start() and ensure_running() returned last
    logged,         \* history: the error the stderr log was reported with
    looked,         \* history: the call looked the executable up
    signals,        \* history: the signals sent, <<child, signal>>
    dpc,            \* the place of cmd_run
    launcher        \* cmd_run's launcher is not None

client == <<reconnect_max, backoff, pc, conn, inbox, arrived, sent, cur,
            escaped, cause, prevCause, prevSleep, cleanSeen, last, answered,
            health>>

supervisor == <<process, stderr_file, children, external, exe, lpc, call,
                ticks, ret, logged, looked, signals, dpc, launcher>>

vars == <<client, supervisor>>

hist == <<cause, prevCause, prevSleep, cleanSeen>>

----------------------------------------------------------------------------
(* Bounds of the model *)

\* reconnect_interval_max is drawn from 0..MaxReconnect
MaxReconnect == 3

\* frames the remote sends on one websocket
MaxMsgs == 2

\* sleeps of the polling loop before the deadline of start() has passed
MaxPolls == 2

\* processes the supervisor starts in one behaviour
MaxLaunches == 2

----------------------------------------------------------------------------
(* Python values *)

\* None, and the value of an absent JSON key
None == <<>>
Missing == "<missing>"

\* a str value, and an f-string made of a literal and a formatted value
Str(s) == <<s>>
FStr(literal, value) == <<literal, value>>

Min(a, b) == IF a <= b THEN a ELSE b

----------------------------------------------------------------------------
(* Exceptions: each class with all its base classes *)

Mro(exc) ==
    CASE exc = "ConnectionClosedError" ->
             {"ConnectionClosedError", "ConnectionClosed", "Exception", "BaseException"}
      [] exc = "ConnectionClosedOK" ->
             {"ConnectionClosedOK", "ConnectionClosed", "Exception", "BaseException"}
      [] exc = "InvalidStatusCode" ->
             {"InvalidStatusCode", "InvalidHandshake", "Exception", "BaseException"}
      [] exc = "InvalidMessage" ->
             {"InvalidMessage", "InvalidHandshake", "Exception", "BaseException"}
      [] exc = "ConnectionRefusedError" ->
             {"ConnectionRefusedError", "ConnectionError", "OSError", "Exception",
              "BaseException"}
      [] exc = "ConnectionError" ->
             {"ConnectionError", "OSError", "Exception", "BaseException"}
      [] exc = "OSError" -> {"OSError", "Exception", "BaseException"}
      [] exc = "JSONDecodeError" ->
             {"JSONDecodeError", "ValueError", "Exception", "BaseException"}
      [] exc = "AttributeError" -> {"AttributeError", "Exception", "BaseException"}
      [] exc = "RuntimeError" -> {"RuntimeError", "Exception", "BaseException"}
      [] exc = "ReadTimeout" -> {"ReadTimeout", "Exception", "BaseException"}
      [] exc = "CancelledError" -> {"CancelledError", "BaseException"}
      [] OTHER -> {exc, "BaseException"}

IsInstance(exc, cls) == cls \in Mro(exc)

\* what str(e) gives for the exceptions whose text is formatted into a reply
ExcText(exc) ==
    CASE exc = "ConnectionError" -> "Cannot connect to OpenClaw at <base_url>"
      [] exc = "RuntimeError" -> "OpenClaw returned HTTP <status>: <text>"
      [] exc = "AttributeError" -> "object has no attribute 'get'"
      [] OTHER -> ""

----------------------------------------------------------------------------
(* Inbound frames *)

\* the arguments member of a tool_request: a mapping (with or without "query"),
\* another JSON value, or absent
ArgsQuery(q) == [t |-> "dict", query |-> q]
ArgsEmpty == [t |-> "dict", query |-> Missing]
ArgsList == [t |-> "list", query |-> Missing]
ArgsAbsent == [t |-> "absent", query |-> Missing]

\* json: "invalid" (not JSON), "list" (JSON, but no object), "dict" (an object);
\* the other fields are the object's members, Missing / ArgsAbsent when absent
Frame(json, type, rid, tool, args) ==
    [json |-> json, type |-> type, request_id |-> rid, tool_name |-> tool,
     arguments |-> args]

BadJson == Frame("invalid", Missing, Missing, Missing, ArgsAbsent)
NonObject == Frame("list", Missing, Missing, Missing, ArgsAbsent)
Ping == Frame("dict", "ping", Missing, Missing, ArgsAbsent)
UnknownType == Frame("dict", "hello", Missing, Missing, ArgsAbsent)
NoType == Frame("dict", Missing, Missing, Missing, ArgsAbsent)
ToolRequest(rid, tool, args) == Frame("dict", "tool_request", rid, tool, args)

ToolRequests ==
    { ToolRequest("abc123", "local_openclaw", ArgsQuery("hi")),
      ToolRequest(Missing, "local_openclaw", ArgsAbsent),
      ToolRequest("r2", "local_openclaw", ArgsList),
      ToolRequest("r2", "web_search", ArgsQuery("hi")),
      ToolRequest("abc123", Missing, ArgsEmpty) }

InboundFrames == {BadJson, NonObject, Ping, UnknownType, NoType} \cup ToolRequests

\* json.loads(raw): the parsed value, or JSONDecodeError
JsonLoads(raw) ==
    IF raw.json = "invalid"
    THEN [exc |-> "JSONDecodeError", value |-> raw]
    ELSE [exc |-> "none", value |-> raw]

\* msg.get(key, default) on a parsed object
DictGet(value, default) == IF value = Missing THEN default ELSE value

\* arguments = msg.get("arguments", {})
ArgumentsGet(args) == IF args.t = "absent" THEN ArgsEmpty ELSE args

----------------------------------------------------------------------------
(* Outbound frames *)

Pong == [type |-> "pong"]

\* a status frame that reports the agent healthy whatever the check found
StatusAlwaysHealthy(openclaw_ok) ==
    [type |-> "status", openclaw_status |-> "healthy",
     client_version |-> "<version>"]

Status(openclaw_ok) ==
    [type |-> "status",
     openclaw_status |-> IF openclaw_ok THEN "healthy" ELSE "unreachable",
     client_version |-> "<version>"]

\* the response dict as _handle_tool_request first builds it
NewResponse(request_id) ==
    [type |-> "tool_response", request_id |-> request_id, success |-> FALSE,
     result |-> None, error |-> None]

----------------------------------------------------------------------------
(* The local agent, OpenClawClient *)

\* what the agent's chat-completion endpoint does with one POST: answers 200
\* with a list of choices (each the content of its message, Missing when the
\* message has none), answers an error status, cannot be connected to, or
\* does not answer within the timeout
AgentAnswer(kind, choices) == [kind |-> kind, choices |-> choices]

AgentAnswers ==
    { AgentAnswer("200", <<"hello">>),
      AgentAnswer("200", <<"hello", "second">>),
      AgentAnswer("200", <<>>),
      AgentAnswer("http_error", <<>>),
      AgentAnswer("connect_error", <<>>),
      AgentAnswer("timeout", <<>>) }

NoChoicesText == "[OpenClaw] No response choices returned."

\* OpenClawClient.aquery: the reply text, or the exception raised
Aquery(answer) ==
    CASE answer.kind = "connect_error" -> [exc |-> "ConnectionError", value |-> ""]
      [] answer.kind = "http_error" -> [exc |-> "RuntimeError", value |-> ""]
      [] answer.kind = "timeout" -> [exc |-> "ReadTimeout", value |-> ""]
      [] OTHER ->
           IF answer.choices = <<>>
           THEN [exc |-> "none", value |-> NoChoicesText]
           ELSE [exc |-> "none", value |-> DictGet(answer.choices[1], "")]

----------------------------------------------------------------------------
(* BridgeClient._handle_tool_request *)

\* a bridge that forwards every tool to the local agent
ToolSupportedAny(tool_name) == TRUE

\* the tool the bridge can execute
ToolSupported(tool_name) == tool_name = "local_openclaw"

\* the tool execution with only its generic except clause
ToolExceptGeneric(response, exc) ==
    [response EXCEPT !.error = FStr("Tool execution failed: ", ExcText(exc))]

\* the except clauses around the tool execution
ToolExcept(response, exc) ==
    IF IsInstance(exc, "ConnectionError")
    THEN [response EXCEPT !.error = FStr("OpenClaw unreachable: ", ExcText(exc))]
    ELSE [response EXCEPT !.error = FStr("Tool execution failed: ", ExcText(exc))]

\* a success that leaves the result unset
ToolResultFlagOnly(response, result) == [response EXCEPT !.success = TRUE]

\* the assignments after aquery has returned
ToolResult(response, result) ==
    [response EXCEPT !.success = TRUE, !.result = Str(result)]

\* the response for a tool that is not supported
ToolUnsupported(response, tool_name) ==
    [response EXCEPT !.error = FStr("Unsupported tool: ", tool_name)]

\* What a handler does next: return without sending ("return"), let an
\* exception propagate ("raise"), send frames and return ("send"), or await
\* the local agent for the request ("await").
Plan(do, exc, frames, request_id) ==
    [do |-> do, exc |-> exc, frames |-> frames, request_id |-> request_id]

\* a handler that reads the query outside its try block
HandleToolRequestNoTry(request_id, tool_name, arguments) ==
    IF ToolSupported(tool_name)
    THEN IF arguments.t = "dict"
         THEN Plan("await", "none", <<>>, request_id)
         ELSE Plan("raise", "AttributeError", <<>>, request_id)
    ELSE Plan("send", "none",
              <<ToolUnsupported(NewResponse(request_id), tool_name)>>, request_id)

\* _handle_tool_request up to the point where it awaits aquery or sends
HandleToolRequest(request_id, tool_name, arguments) ==
    IF ToolSupported(tool_name)
    THEN IF arguments.t = "dict"
         THEN Plan("await", "none", <<>>, request_id)
         ELSE Plan("send", "none",
                   <<ToolExcept(NewResponse(request_id), "AttributeError")>>,
                   request_id)
    ELSE Plan("send", "none",
              <<ToolUnsupported(NewResponse(request_id), tool_name)>>, request_id)

\* _handle_tool_request from the point where aquery has ended
ToolFinish(request_id, answer) ==
    LET out == Aquery(answer)
    IN  IF out.exc = "none"
        THEN ToolResult(NewResponse(request_id), out.value)
        ELSE ToolExcept(NewResponse(request_id), out.exc)

----------------------------------------------------------------------------
(* BridgeClient._handle_message *)

\* json.loads without its except clause
BadJsonNotCaught(exc) == FALSE

\* the except clause around json.loads
BadJsonCaught(exc) == exc = "JSONDecodeError"

\* a ping answered twice
OnPingTwice == <<Pong, Pong>>

\* the frames sent for a ping
OnPing == <<Pong>>

HandleMessage(raw) ==
    LET parsed == JsonLoads(raw)
        msg == parsed.value
    IN  IF parsed.exc # "none"
        THEN IF BadJsonCaught(parsed.exc)
             THEN Plan("return", "none", <<>>, "")
             ELSE Plan("raise", parsed.exc, <<>>, "")
        ELSE IF msg.json # "dict"
        THEN Plan("raise", "AttributeError", <<>>, "")
        ELSE IF msg.type = "tool_request"
        THEN HandleToolRequest(DictGet(msg.request_id, ""),
                               DictGet(msg.tool_name, ""),
                               ArgumentsGet(msg.arguments))
        ELSE IF msg.type = "ping"
        THEN Plan("send", "none", OnPing, "")
        ELSE Plan("return", "none", <<>>, "")

----------------------------------------------------------------------------
(* BridgeClient.run *)

InitialBackoff == 1

\* run() with only its first except clause
RunCatchesNetworkOnly(exc) ==
    \E cls \in {"ConnectionClosedError", "InvalidStatusCode",
                 "ConnectionRefusedError", "OSError"} : IsInstance(exc, cls)

\* the except clauses of run(): TRUE when the exception is caught
RunCatches(exc) ==
    \/ \E cls \in {"ConnectionClosedError", "InvalidStatusCode",
                   "ConnectionRefusedError", "OSError"} : IsInstance(exc, cls)
    \/ IsInstance(exc, "Exception")

\* run() without the reset after a clean disconnect
BackoffAfterListenNoReset(exc, b) == b

\* backoff after _connect_and_listen has ended: exc is "none" when it returned
BackoffAfterListen(exc, b) == IF exc = "none" THEN 1 ELSE b

\* run() capping the backoff without doubling it
NextBackoffNoDoubling(b, max) == Min(b, max)

\* backoff after the sleep
NextBackoff(b, max) == Min(b * 2, max)

----------------------------------------------------------------------------
(* The websocket *)

\* close codes the remote end can end the session with: normal closure, and
\* invalid or revoked credentials
CloseCodes == {"1000", "4001"}

\* the exception a closed websocket raises: ConnectionClosedOK for a normal
\* closure, ConnectionClosedError for every other code
ClosedExc(code) ==
    IF code \in {"1000", "1001"} THEN "ConnectionClosedOK" ELSE "ConnectionClosedError"

\* how `async for raw in ws` ends on a closed websocket: the iteration
\* finishes ("none") after a normal closure and raises otherwise
IterationEnd(code) ==
    IF ClosedExc(code) = "ConnectionClosedOK" THEN "none" ELSE ClosedExc(code)

\* outcomes of the opening handshake
ConnectOutcomes ==
    {"ok", "InvalidStatusCode", "ConnectionRefusedError", "OSError", "InvalidMessage"}

Idle == "<idle>"

\* no frame handled yet on this websocket, no aquery ended yet
NoFrame == Frame("none", Missing, Missing, Missing, ArgsAbsent)
NoAnswer == AgentAnswer("none", <<>>)

\* self._process = None
NoProcess == 0

\* neither start() nor ensure_running() has returned
NoReturn == [start |-> "none", ensure_running |-> "none"]

----------------------------------------------------------------------------
(* The state machine *)

\* OpenClawLauncher.__init__
LauncherInit ==
    /\ process = NoProcess
    /\ stderr_file = "none"
    /\ children = <<>>
    /\ lpc = "idle"
    /\ call = "none"
    /\ ticks = 0
    /\ ret = NoReturn
    /\ logged = "none"
    /\ looked = FALSE
    /\ signals = {}

\* a step of client.run() inside cmd_run: the supervisor is left alone
InRun == dpc = "loop" /\ UNCHANGED supervisor

\* BridgeClient.__init__ and the first lines of run()
RunInit ==
    /\ backoff = InitialBackoff
    /\ pc = "connect"
    /\ conn = "none"
    /\ inbox = <<>>
    /\ arrived = 0
    /\ sent = <<>>
    /\ cur = Idle
    /\ escaped = "none"
    /\ cause = "none"
    /\ prevCause = "none"
    /\ prevSleep = 0
    /\ cleanSeen = FALSE
    /\ last = NoFrame
    /\ answered = NoAnswer
    /\ health = "none"

\* the relay loop of a daemon that was told not to start the agent
Init ==
    /\ reconnect_max \in 0..MaxReconnect
    /\ RunInit
    /\ LauncherInit
    /\ external = FALSE
    /\ exe = FALSE
    /\ launcher = FALSE
    /\ dpc = "loop"

\* leaving `async with websockets.connect(...)`: the websocket is closed
CloseWs ==
    /\ conn' = "none"
    /\ inbox' = <<>>
    /\ arrived' = 0
    /\ sent' = <<>>
    /\ cur' = Idle
    /\ last' = NoFrame
    /\ answered' = NoAnswer
    /\ health' = "none"

\* run() after _connect_and_listen has returned (exc = "none") or raised exc:
\* a caught exception is logged and the loop goes on to sleep, any other
\* exception leaves run()
RunAfter(exc) ==
    /\ CloseWs
    /\ IF exc = "none" \/ RunCatches(exc)
       THEN /\ backoff' = BackoffAfterListen(exc, backoff)
            /\ pc' = "sleep"
            /\ cause' = IF exc = "none" THEN "clean" ELSE "error"
            /\ cleanSeen' = (cleanSeen \/ exc = "none")
            /\ UNCHANGED <<escaped, prevCause, prevSleep>>
       ELSE /\ pc' = "raised"
            /\ escaped' = exc
            /\ UNCHANGED <<backoff, hist>>

\* a send that writes the frames although the websocket is closed
WsSendAlsoWhenClosed(frames) ==
    /\ sent' = sent \o frames
    /\ pc' = "recv"
    /\ cur' = Idle
    /\ UNCHANGED <<backoff, conn, arrived, escaped, hist>>
    /\ conn # "open" => (inbox' = <<>> /\ UNCHANGED <<last, answered, health>>)

\* ws.send of the frames: on an open websocket they are written and the
\* handler returns to the listen loop, on a closed one send raises
WsSend(frames) ==
    IF conn = "open"
    THEN /\ sent' = sent \o frames
         /\ pc' = "recv"
         /\ cur' = Idle
         /\ UNCHANGED <<backoff, conn, arrived, escaped, hist>>
    ELSE RunAfter(ClosedExc(conn))

\* websockets.connect: the handshake succeeds or fails
Connect ==
    /\ pc = "connect"
    /\ \E outcome \in ConnectOutcomes :
          IF outcome = "ok"
          THEN /\ conn' = "open"
               /\ pc' = "status"
               /\ inbox' = <<>>
               /\ arrived' = 0
               /\ sent' = <<>>
               /\ UNCHANGED <<backoff, cur, escaped, hist, last, answered, health>>
          ELSE RunAfter(outcome)
    /\ UNCHANGED reconnect_max
    /\ InRun

\* _send_status: one health check of the local agent, then the status frame
SendStatus ==
    /\ pc = "status"
    /\ \E openclaw_ok \in BOOLEAN :
          /\ WsSend(<<Status(openclaw_ok)>>)
          /\ conn = "open" =>
                /\ health' = (IF openclaw_ok THEN "ok" ELSE "failed")
                /\ UNCHANGED <<inbox, last, answered>>
    /\ UNCHANGED reconnect_max
    /\ InRun

\* a listen loop that takes the next frame while a tool request is in flight
ListenReadyWhileBusy == pc \in {"recv", "aquery"}

\* the listen loop takes the next frame only after `await
\* self._handle_message(ws, raw)` has returned for the frame before it
ListenReady == pc = "recv"

\* one iteration of `async for raw in ws`: _handle_message(ws, raw)
Listen ==
    /\ ListenReady
    /\ inbox # <<>>
    /\ LET plan == HandleMessage(Head(inbox))
           handled == /\ inbox' = Tail(inbox)
                      /\ last' = Head(inbox)
                      /\ answered' = NoAnswer
                      /\ UNCHANGED health
       IN  CASE plan.do = "return" ->
                  /\ handled
                  /\ UNCHANGED <<backoff, pc, conn, arrived, sent, cur, escaped, hist>>
             [] plan.do = "raise" -> RunAfter(plan.exc)
             [] plan.do = "await" ->
                  /\ handled
                  /\ pc' = "aquery"
                  /\ cur' = plan.request_id
                  /\ UNCHANGED <<backoff, conn, arrived, sent, escaped, hist>>
             [] plan.do = "send" ->
                  /\ WsSend(plan.frames)
                  /\ conn = "open" => handled
    /\ UNCHANGED reconnect_max
    /\ InRun

\* the iteration finds the websocket closed and nothing left to read
ListenEnd ==
    /\ pc = "recv"
    /\ inbox = <<>>
    /\ conn \in CloseCodes
    /\ RunAfter(IterationEnd(conn))
    /\ UNCHANGED reconnect_max
    /\ InRun

\* aquery ends; the tool response is built and sent
AqueryReturn ==
    /\ pc = "aquery"
    /\ \E answer \in AgentAnswers :
          /\ WsSend(<<ToolFinish(cur, answer)>>)
          /\ conn = "open" => (answered' = answer /\ UNCHANGED <<inbox, last, health>>)
    /\ UNCHANGED reconnect_max
    /\ InRun

\* asyncio.sleep(backoff) ends, backoff is doubled and the loop starts over
Sleep ==
    /\ pc = "sleep"
    /\ backoff' = NextBackoff(backoff, reconnect_max)
    /\ pc' = "connect"
    /\ prevSleep' = backoff
    /\ prevCause' = cause
    /\ UNCHANGED <<reconnect_max, conn, inbox, arrived, sent, cur, escaped,
                   cause, cleanSeen, last, answered, health>>
    /\ InRun

\* the task running run() is cancelled at the await it is suspended at
Cancel ==
    /\ pc # "raised"
    /\ RunAfter("CancelledError")
    /\ UNCHANGED reconnect_max
    /\ InRun

\* the remote end sends a frame
RemoteSend ==
    /\ conn = "open"
    /\ arrived < MaxMsgs
    /\ \E raw \in InboundFrames : inbox' = Append(inbox, raw)
    /\ arrived' = arrived + 1
    /\ UNCHANGED <<reconnect_max, backoff, pc, conn, sent, cur, escaped, hist,
                   last, answered, health>>
    /\ InRun

\* the remote end closes the session, or the network drops it
RemoteClose ==
    /\ conn = "open"
    /\ \E code \in CloseCodes : conn' = code
    /\ UNCHANGED <<reconnect_max, backoff, pc, inbox, arrived, sent, cur, escaped,
                   hist, last, answered, health>>
    /\ InRun

Next ==
    \/ Connect
    \/ SendStatus
    \/ Listen
    \/ ListenEnd
    \/ AqueryReturn
    \/ Sleep
    \/ Cancel
    \/ RemoteSend
    \/ RemoteClose

Spec == Init /\ [][Next]_vars

\* asyncio.sleep returns once its delay has passed
FairSpec == Spec /\ WF_vars(Sleep)

----------------------------------------------------------------------------
(* Backoff and reconnection *)

\* C1: from daemon start and as long as no disconnect was clean, the first
\* sleep lasts 1 unit, every later sleep lasts twice the sleep before it,
\* capped at reconnect_max, and no sleep lasts longer than reconnect_max,
\* whatever value reconnect_max has.
C1_SleepsDoubleAndNeverExceedMax ==
    (pc = "sleep" /\ ~cleanSeen) =>
        /\ prevCause = "none" => backoff = 1
        /\ prevCause # "none" => backoff = Min(2 * prevSleep, reconnect_max)
        /\ backoff <= reconnect_max

C3_FirstFailureAfterCleanSleepsOne ==
    (reconnect_max >= 1 /\ pc = "sleep" /\ cause = "error" /\ prevCause = "clean")
        => backoff = 1

\* C3 as amended: backoff is doubled (and capped) after every sleep, the
\* 1-unit sleep after a clean disconnect included, so the sleep after the
\* first failure that follows a clean disconnect lasts min(2, reconnect_max).
C3_FirstFailureAfterCleanSleepsTwo ==
    /\ (pc = "sleep" /\ cause = "error" /\ prevCause = "clean") =>
           backoff = Min(2, reconnect_max)
    /\ (pc = "connect" /\ prevCause = "clean") =>
           (prevSleep = 1 /\ backoff = Min(2, reconnect_max))

\* a failure right after a clean disconnect, followed by a 2-unit sleep
C3_Witness ==
    pc = "sleep" /\ cause = "error" /\ prevCause = "clean" /\ backoff = 2

\* C4: run() is left only by cancellation; every disconnect that is not a
\* cancellation, whatever caused it, leads to the sleep, and every sleep is
\* followed by another connection attempt unless the task is cancelled.
C4_RunEndsOnlyByCancellation ==
    /\ [](pc = "raised" => escaped = "CancelledError")
    /\ [][(pc \in {"connect", "status", "recv", "aquery"} /\ pc' \notin {pc, "status", "recv", "aquery"})
             => (pc' = "sleep" \/ escaped' = "CancelledError")]_vars
    /\ [](pc = "sleep" => ENABLED Sleep)
    /\ (pc = "sleep") ~> (pc = "connect" \/ escaped = "CancelledError")

\* a connection attempt made after an errored disconnect and its sleep
C4_Witness ==
    pc = "connect" /\ prevCause = "error" /\ cleanSeen /\ prevSleep >= 2

----------------------------------------------------------------------------
(* Message dispatch *)

LastSent == sent[Len(sent)]

\* the frame the next iteration of the listen loop handles
NextFrame == Head(inbox)

IsToolRequest(raw) == raw.json = "dict" /\ raw.type = "tool_request"
IsPing(raw) == raw.json = "dict" /\ raw.type = "ping"

\* C5: a frame that is not JSON is ignored: nothing is sent, the websocket
\* stays as it is, backoff is unchanged, and the loop goes on to the frames
\* queued behind it.
C5_BadJsonIgnored ==
    [][(Listen /\ NextFrame.json = "invalid") =>
          /\ pc' = "recv"
          /\ inbox' = Tail(inbox)
          /\ UNCHANGED <<sent, conn, arrived, backoff, cur, escaped>>]_vars

\* bad JSON was handled, only the status frame has been sent, the session is
\* open and the loop is about to handle the tool request queued behind it
C5_Witness ==
    /\ pc = "recv" /\ conn = "open"
    /\ last = BadJson
    /\ Len(sent) = 1
    /\ inbox = <<ToolRequest("abc123", "local_openclaw", ArgsQuery("hi"))>>

\* C6: on an open session no frame that is neither a tool_request nor a ping
\* ends the session: nothing is sent and the loop goes on to the next frame.
C6_NoFrameIsFatal ==
    [][(Listen /\ conn = "open" /\ ~IsToolRequest(NextFrame) /\ ~IsPing(NextFrame)) =>
          /\ pc' = "recv"
          /\ inbox' = Tail(inbox)
          /\ UNCHANGED <<sent, conn>>]_vars

\* C7: a tool_request for any tool but "local_openclaw" (a missing tool_name
\* included) is answered on the open session by one tool_response with the
\* request's id, success false, result null and an error naming the tool; the
\* local agent is not called and the session stays open.
C7_UnsupportedToolRefused ==
    [][(Listen /\ conn = "open" /\ IsToolRequest(NextFrame)
               /\ NextFrame.tool_name # "local_openclaw") =>
          /\ pc' = "recv"
          /\ inbox' = Tail(inbox)
          /\ UNCHANGED <<conn, backoff>>
          /\ sent' = Append(sent,
                [type |-> "tool_response",
                 request_id |-> DictGet(NextFrame.request_id, ""),
                 success |-> FALSE,
                 result |-> None,
                 error |-> FStr("Unsupported tool: ", DictGet(NextFrame.tool_name, ""))])]_vars

\* the refusal of a web_search request is the latest frame sent
C7_Witness ==
    /\ pc = "recv" /\ conn = "open"
    /\ last = ToolRequest("r2", "web_search", ArgsQuery("hi"))
    /\ Len(sent) = 2
    /\ LastSent.type = "tool_response"
    /\ LastSent.request_id = "r2"
    /\ LastSent.error = FStr("Unsupported tool: ", "web_search")

\* C8: a ping handled on an open session is answered by exactly one pong and
\* changes nothing else: no other frame is sent, the local agent is not
\* called, the session and backoff stay as they are.
C8_PingAnsweredByOnePong ==
    [][(Listen /\ conn = "open" /\ IsPing(NextFrame)) =>
          /\ sent' = Append(sent, Pong)
          /\ pc' = "recv"
          /\ inbox' = Tail(inbox)
          /\ UNCHANGED <<conn, backoff, arrived, cur, escaped, reconnect_max>>]_vars

\* a ping was handled and the pong is the latest frame sent
C8_Witness ==
    /\ pc = "recv" /\ conn = "open"
    /\ last = Ping
    /\ sent # <<>> /\ LastSent = Pong

\* C9: when the local agent answers a local_openclaw request with a reply
\* text (the content of its first choice), the tool_response sent carries the
\* request's id, success true, that text as result and a null error.
C9_AgentReplyReturned ==
    [][(AqueryReturn /\ conn = "open" /\ answered'.kind = "200"
                     /\ answered'.choices # <<>>) =>
          /\ last.tool_name = "local_openclaw"
          /\ pc' = "recv"
          /\ sent' = Append(sent,
                [type |-> "tool_response",
                 request_id |-> DictGet(last.request_id, ""),
                 success |-> TRUE,
                 result |-> Str(answered'.choices[1]),
                 error |-> None])]_vars

\* the round trip of request "abc123" answered "hello"
C9_Witness ==
    /\ pc = "recv" /\ conn = "open"
    /\ last = ToolRequest("abc123", "local_openclaw", ArgsQuery("hi"))
    /\ answered = AgentAnswer("200", <<"hello">>)
    /\ sent # <<>>
    /\ LastSent = [type |-> "tool_response", request_id |-> "abc123",
                   success |-> TRUE, result |-> Str("hello"), error |-> None]

\* C10: when the local agent cannot be connected to, the tool_response sent
\* carries the request's id, success false, a null result and an error that
\* says the agent is unreachable; the session stays open and the frames
\* queued behind the request are still there to be handled.
C10_AgentUnreachableReported ==
    [][(AqueryReturn /\ conn = "open" /\ answered'.kind = "connect_error") =>
          /\ pc' = "recv"
          /\ UNCHANGED <<conn, inbox, arrived, backoff, escaped>>
          /\ Len(sent') = Len(sent) + 1
          /\ SubSeq(sent', 1, Len(sent)) = sent
          /\ LET r == sent'[Len(sent')]
             IN  /\ r.type = "tool_response"
                 /\ r.request_id = DictGet(last.request_id, "")
                 /\ r.success = FALSE
                 /\ r.result = None
                 /\ r.error # None
                 /\ r.error[1] = "OpenClaw unreachable: "]_vars

\* the unreachable agent was reported and a later ping was answered on the
\* same session
C10_Witness ==
    /\ pc = "recv" /\ conn = "open"
    /\ Len(sent) = 3
    /\ sent[2].type = "tool_response"
    /\ sent[2].success = FALSE
    /\ sent[2].error # None
    /\ sent[2].error[1] = "OpenClaw unreachable: "
    /\ sent[3] = Pong

----------------------------------------------------------------------------
(* Replies and the websocket they are written to *)

\* the frames a step appends to what was written to the websocket
Appended == SubSeq(sent', Len(sent) + 1, Len(sent'))

\* a step that writes to the websocket
Sends == Len(sent') > Len(sent)

\* the request_id a tool_response to the frame carries
ResponseId(raw) == DictGet(raw.request_id, "")

\* the number of tool_response frames in a sequence of frames
ToolResponses(frames) ==
    Cardinality({i \in DOMAIN frames : frames[i].type = "tool_response"})

\* C11: every tool_response is written in the handling of one dispatched
\* tool_request, carries its request_id, is the only frame written for it
\* and goes to the websocket the request arrived on while that websocket is
\* open; when the handling ends on an open websocket exactly one response is
\* written, when it ends on a closed one the response is dropped with the
\* websocket, and between two connections nothing is pending, so no
\* response crosses a reconnect.
C11_OneResponseOnItsConnection ==
    /\ [][(Sends /\ LastSent'.type = "tool_response") =>
            /\ Appended = <<LastSent'>>
            /\ SubSeq(sent', 1, Len(sent)) = sent
            /\ conn = "open" /\ conn' = "open"
            /\ arrived' = arrived
            /\ pc' = "recv"
            /\ \/ /\ pc = "recv"
                  /\ inbox # <<>>
                  /\ IsToolRequest(NextFrame)
                  /\ LastSent'.request_id = ResponseId(NextFrame)
                  /\ last' = NextFrame
               \/ /\ pc = "aquery"
                  /\ IsToolRequest(last)
                  /\ LastSent'.request_id = ResponseId(last)
                  /\ last' = last]_vars
    /\ [][(AqueryReturn \/ (Listen /\ IsToolRequest(NextFrame))) =>
            IF pc' = "aquery"
            THEN sent' = sent /\ conn' = conn
            ELSE IF conn = "open"
                 THEN ToolResponses(sent') = ToolResponses(sent) + 1
                 ELSE sent' = <<>> /\ conn' = "none" /\ cur' = Idle]_vars
    /\ [](conn = "none" =>
            sent = <<>> /\ cur = Idle /\ pc \in {"connect", "sleep", "raised"})
    /\ [](ToolResponses(sent) <= arrived - Len(inbox))

\* on one websocket a request was answered by the agent and the request
\* after it was refused, each by one response with its request_id
C11_Witness ==
    /\ conn = "open"
    /\ arrived = 2
    /\ Len(sent) = 3
    /\ sent[2].type = "tool_response" /\ sent[2].request_id = "abc123"
    /\ sent[3].type = "tool_response" /\ sent[3].request_id = "r2"
    /\ sent[2].success /\ ~sent[3].success

\* C12: frames are handled one at a time in the order they arrived: a frame
\* is taken only by the listen loop at rest and it is the oldest one queued;
\* while a tool request is in flight it is the only one, no frame is taken
\* and nothing but its tool_response is written; every reply is written in
\* the handling of the frame it answers, so replies leave in arrival order
\* and a ping queued behind a slow tool_request gets its pong only after
\* that request's tool_response.
C12_OneMessageAtATime ==
    /\ [][(Len(inbox') < Len(inbox) /\ conn' # "none") =>
            /\ pc = "recv"
            /\ inbox' = Tail(inbox)
            /\ last' = Head(inbox)]_vars
    /\ [][(pc = "aquery" /\ conn' # "none") =>
            /\ last' = last
            /\ \/ inbox' = inbox
               \/ \E raw \in InboundFrames : inbox' = Append(inbox, raw)
            /\ \/ sent' = sent /\ pc' = "aquery" /\ cur' = cur
               \/ /\ Appended = <<LastSent'>>
                  /\ LastSent'.type = "tool_response"
                  /\ LastSent'.request_id = cur
                  /\ pc' = "recv"]_vars
    /\ [][(Sends /\ pc = "recv") =>
            /\ inbox # <<>>
            /\ inbox' = Tail(inbox)
            /\ Appended = <<LastSent'>>
            /\ IF IsPing(NextFrame)
               THEN LastSent' = Pong
               ELSE /\ IsToolRequest(NextFrame)
                    /\ LastSent'.type = "tool_response"
                    /\ LastSent'.request_id = ResponseId(NextFrame)]_vars
    /\ [](pc = "aquery" =>
            cur # Idle /\ IsToolRequest(last) /\ cur = ResponseId(last))
    /\ [](cur # Idle => pc = "aquery")

\* a ping is queued behind a tool request that is still with the agent, and
\* nothing has been written since the status
C12_Witness ==
    /\ pc = "aquery"
    /\ cur = "abc123"
    /\ inbox = <<Ping>>
    /\ Len(sent) = 1
    /\ conn = "open"

\* C13: a websocket that has been opened gets one health check and then
\* one status frame, before any frame read from it is dispatched: while the
\* status is due nothing was checked, written or dispatched; once the
\* listen loop runs, the first frame written is a status that says
\* "healthy" if the check succeeded and "unreachable" if it failed, and no
\* other frame written on this websocket is a status; the check is made
\* once per websocket.
C13_OneStatusPerConnect ==
    /\ [](pc = "status" =>
            sent = <<>> /\ last = NoFrame /\ health = "none" /\ conn # "none")
    /\ [](pc \in {"recv", "aquery"} =>
            /\ health \in {"ok", "failed"}
            /\ sent # <<>>
            /\ sent[1].type = "status"
            /\ sent[1].openclaw_status =
                  (IF health = "ok" THEN "healthy" ELSE "unreachable")
            /\ \A i \in 2..Len(sent) : sent[i].type # "status")
    /\ [][health' # health =>
            \/ health = "none" /\ pc = "status" /\ pc' = "recv"
            \/ health' = "none" /\ conn' = "none"]_vars
    /\ [][(last' # last /\ last' # NoFrame) =>
            pc = "recv" /\ sent # <<>> /\ sent[1].type = "status"]_vars
    /\ [](health = "none" => sent = <<>>)

\* the health check failed, the status said so, and a ping read afterwards
\* was answered on the same websocket
C13_Witness ==
    /\ health = "failed"
    /\ Len(sent) = 2
    /\ sent[1].openclaw_status = "unreachable"
    /\ sent[2] = Pong
    /\ last = Ping

----------------------------------------------------------------------------
(* The supervisor of the agent's process, OpenClawLauncher *)

Bool(b) == IF b THEN "true" ELSE "false"

\* a probe that never gets an answer
IsRunningNever == FALSE

\* is_running(): GET /v1/models answers 200, whoever serves the port
IsRunning == external \/ \E i \in DOMAIN children : children[i] = "serving"

\* find_executable() is not None
FindExecutable == exe

\* a supervisor that never notices that its process has exited
ExitedNeverSeen(proc) == FALSE

\* self._process is not None and self._process.poll() is not None
Exited(proc) == proc # NoProcess /\ children[proc] = "exited"

\* a terminate() that signals without looking at the process it holds
ShouldTerminateAlways(proc) == TRUE

\* self._process is not None and self._process.poll() is None
ShouldTerminate(proc) == proc # NoProcess /\ children[proc] # "exited"

\* a terminate() that does not kill after the grace period
TerminateSignalsNoKill(exitedInGrace) == {"TERM"}

\* terminate(), wait(timeout=5), and kill() if the wait timed out
TerminateSignals(exitedInGrace) ==
    IF exitedInGrace THEN {"TERM"} ELSE {"TERM", "KILL"}

\* a polling loop without a deadline
DeadlineNever(slept) == FALSE

\* time.monotonic() < deadline no longer holds: the sleeps of the loop
\* have used up start_timeout
DeadlinePassed(slept) == slept >= MaxPolls

\* a _close_stderr that leaves the log as it is
CloseStderrNoop(file) == file

\* _close_stderr(): the log is closed if it was open, and cleared
CloseStderr(file) == "none"

\* a cmd_run whose finally leaves the launcher alone
FinallyTerminatesNever == FALSE

\* finally: if launcher is not None: launcher.terminate()
FinallyTerminates == launcher

\* where cmd_run goes on when a call of the supervisor has returned
CmdRunAfter(api, success) ==
    IF dpc = "api" THEN "api"
    ELSE IF api = "ensure_running" /\ success THEN "loop"
    ELSE "exited"

\* an ensure_running() that keeps a process that has exited
StartReturnsKeepingProcess(api, success, proc, file) ==
    /\ process' = proc
    /\ stderr_file' = file
    /\ ret' = [start |-> Bool(success),
               ensure_running |-> IF api = "ensure_running"
                                  THEN Bool(success) ELSE "none"]
    /\ lpc' = "idle"
    /\ dpc' = CmdRunAfter(api, success)

\* start() returns success, leaving proc and file in self._process and
\* self._stderr_file; when ensure_running() made the call it gives up a
\* process that has exited although the start succeeded, and returns too
StartReturns(api, success, proc, file) ==
    LET ceded == api = "ensure_running" /\ success /\ Exited(proc)
    IN  /\ process' = IF ceded THEN NoProcess ELSE proc
        /\ stderr_file' = IF ceded THEN CloseStderr(file) ELSE file
        /\ ret' = [start |-> Bool(success),
                   ensure_running |-> IF api = "ensure_running"
                                      THEN Bool(success) ELSE "none"]
        /\ lpc' = "idle"
        /\ dpc' = CmdRunAfter(api, success)

\* start() up to the polling loop: the executable is looked up, the log is
\* opened and the process is started
StartBegin(api) ==
    /\ looked' = TRUE
    /\ logged' = "none"
    /\ IF ~FindExecutable
       THEN /\ StartReturns(api, FALSE, process, stderr_file)
            /\ UNCHANGED <<children, ticks>>
       ELSE \/ /\ StartReturns(api, FALSE, process, CloseStderr(stderr_file))
               /\ UNCHANGED <<children, ticks>>
            \/ /\ Len(children) < MaxLaunches
               /\ children' = Append(children, "starting")
               /\ process' = Len(children) + 1
               /\ stderr_file' = "open"
               /\ lpc' = "check"
               /\ ticks' = 0
               /\ ret' = NoReturn
               /\ UNCHANGED dpc

\* ensure_running(): nothing to do when the agent answers, start() otherwise
EnsureRunning ==
    /\ lpc = "idle"
    /\ dpc \in {"api", "ensure"}
    /\ call' = "ensure_running"
    /\ IF IsRunning
       THEN /\ ret' = [start |-> "none", ensure_running |-> "true"]
            /\ dpc' = CmdRunAfter("ensure_running", TRUE)
            /\ looked' = FALSE
            /\ logged' = "none"
            /\ UNCHANGED <<process, stderr_file, children, lpc, ticks>>
       ELSE StartBegin("ensure_running")
    /\ UNCHANGED <<external, exe, signals, launcher, client>>

\* start() called by itself
Start ==
    /\ lpc = "idle"
    /\ dpc = "api"
    /\ call' = "start"
    /\ StartBegin("start")
    /\ UNCHANGED <<external, exe, signals, launcher, client>>

\* an iteration that probes before it looks at the process
WaitCheckProbeFirst ==
    /\ lpc = "check"
    /\ IF DeadlinePassed(ticks)
       THEN /\ StartReturns(call, FALSE, process, CloseStderr(stderr_file))
            /\ logged' = "timeout"
       ELSE IF IsRunning
       THEN /\ StartReturns(call, TRUE, process, stderr_file)
            /\ UNCHANGED logged
       ELSE IF Exited(process)
       THEN /\ StartReturns(call, FALSE, process, CloseStderr(stderr_file))
            /\ logged' = "exited"
       ELSE /\ lpc' = "probe"
            /\ UNCHANGED <<process, stderr_file, ret, logged, dpc>>
    /\ UNCHANGED <<children, external, exe, call, ticks, looked, signals,
                   launcher, client>>

\* the head of an iteration of _wait_until_ready: the deadline, then the
\* exit of the process
WaitCheck ==
    /\ lpc = "check"
    /\ IF DeadlinePassed(ticks)
       THEN /\ StartReturns(call, FALSE, process, CloseStderr(stderr_file))
            /\ logged' = "timeout"
       ELSE IF Exited(process)
       THEN /\ StartReturns(call, FALSE, process, CloseStderr(stderr_file))
            /\ logged' = "exited"
       ELSE /\ lpc' = "probe"
            /\ UNCHANGED <<process, stderr_file, ret, logged, dpc>>
    /\ UNCHANGED <<children, external, exe, call, ticks, looked, signals,
                   launcher, client>>

\* the rest of the iteration: the probe, and the sleep if it failed
WaitProbe ==
    /\ lpc = "probe"
    /\ IF IsRunning
       THEN /\ StartReturns(call, TRUE, process, stderr_file)
            /\ UNCHANGED ticks
       ELSE /\ lpc' = "check"
            /\ ticks' = ticks + 1
            /\ UNCHANGED <<process, stderr_file, ret, dpc>>
    /\ UNCHANGED <<children, external, exe, call, logged, looked, signals,
                   launcher, client>>

\* terminate(), called by anyone or by the finally of cmd_run
Terminate ==
    /\ lpc = "idle"
    /\ dpc = "api" \/ (dpc = "loop" /\ pc = "raised" /\ FinallyTerminates)
    /\ call' = "terminate"
    /\ IF ShouldTerminate(process)
       THEN \E exitedInGrace \in BOOLEAN :
               LET sigs == TerminateSignals(exitedInGrace)
               IN  /\ signals' = signals \cup {<<process, sig>> : sig \in sigs}
                   /\ children' =
                         [i \in DOMAIN children |->
                            IF i = process /\ (exitedInGrace \/ "KILL" \in sigs)
                            THEN "exited" ELSE children[i]]
       ELSE UNCHANGED <<signals, children>>
    /\ stderr_file' = CloseStderr(stderr_file)
    /\ ret' = NoReturn
    /\ looked' = FALSE
    /\ logged' = "none"
    /\ dpc' = CmdRunAfter("terminate", TRUE)
    /\ UNCHANGED <<process, external, exe, lpc, ticks, launcher, client>>

\* cmd_run ends after run() when there is no launcher to terminate
CmdRunExit ==
    /\ dpc = "loop"
    /\ pc = "raised"
    /\ ~FinallyTerminates
    /\ dpc' = "exited"
    /\ UNCHANGED <<process, stderr_file, children, external, exe, lpc, call,
                   ticks, ret, logged, looked, signals, launcher, client>>

\* a process the supervisor started begins to serve the port
ChildReady ==
    /\ ~IsRunning
    /\ \E i \in DOMAIN children :
          /\ children[i] = "starting"
          /\ children' = [children EXCEPT ![i] = "serving"]
    /\ UNCHANGED <<process, stderr_file, external, exe, lpc, call, ticks, ret,
                   logged, looked, signals, dpc, launcher, client>>

\* a process the supervisor started exits by itself
ChildExit ==
    /\ \E i \in DOMAIN children :
          /\ children[i] # "exited"
          /\ children' = [children EXCEPT ![i] = "exited"]
    /\ UNCHANGED <<process, stderr_file, external, exe, lpc, call, ticks, ret,
                   logged, looked, signals, dpc, launcher, client>>

\* an agent started by someone else begins to serve the port
ExternalStart ==
    /\ ~IsRunning
    /\ external' = TRUE
    /\ UNCHANGED <<process, stderr_file, children, exe, lpc, call, ticks, ret,
                   logged, looked, signals, dpc, launcher, client>>

\* the agent started by someone else goes away
ExternalStop ==
    /\ external
    /\ external' = FALSE
    /\ UNCHANGED <<process, stderr_file, children, exe, lpc, call, ticks, ret,
                   logged, looked, signals, dpc, launcher, client>>

\* the executable is installed on the PATH, or removed from it
PathChange ==
    /\ exe' = ~exe
    /\ UNCHANGED <<process, stderr_file, children, external, lpc, call, ticks,
                   ret, logged, looked, signals, dpc, launcher, client>>

\* a supervisor just constructed, its methods called in any order
SupervisorInit ==
    /\ reconnect_max = MaxReconnect
    /\ RunInit
    /\ LauncherInit
    /\ external = FALSE
    /\ exe \in BOOLEAN
    /\ launcher = TRUE
    /\ dpc = "api"

SupervisorNext ==
    \/ EnsureRunning
    \/ Start
    \/ WaitCheck
    \/ WaitProbe
    \/ Terminate
    \/ ChildReady
    \/ ChildExit
    \/ ExternalStart
    \/ ExternalStop
    \/ PathChange

SupervisorSpec == SupervisorInit /\ [][SupervisorNext]_vars

\* the polling loop goes on running: each iteration is reached and ended
SupervisorFairSpec ==
    SupervisorSpec /\ WF_vars(WaitCheck) /\ WF_vars(WaitProbe)

----------------------------------------------------------------------------
(* The daemon, cmd_run *)

\* the frames the remote sends to the daemon
RelayFrames ==
    {Ping, ToolRequest("abc123", "local_openclaw", ArgsQuery("hi"))}

\* the remote end sends a frame
RelaySend ==
    /\ conn = "open"
    /\ arrived < MaxMsgs
    /\ \E raw \in RelayFrames : inbox' = Append(inbox, raw)
    /\ arrived' = arrived + 1
    /\ UNCHANGED <<reconnect_max, backoff, pc, conn, sent, cur, escaped, hist,
                   last, answered, health>>
    /\ InRun

\* cmd_run after the configuration is loaded: the launcher is created
\* when openclaw_auto_start is set
DaemonInit ==
    /\ reconnect_max = MaxReconnect
    /\ RunInit
    /\ LauncherInit
    /\ external \in BOOLEAN
    /\ exe \in BOOLEAN
    /\ launcher \in BOOLEAN
    /\ dpc = IF launcher THEN "ensure" ELSE "loop"

DaemonNext ==
    \/ EnsureRunning
    \/ WaitCheck
    \/ WaitProbe
    \/ Terminate
    \/ CmdRunExit
    \/ ChildReady
    \/ ChildExit
    \/ ExternalStart
    \/ ExternalStop
    \/ Connect
    \/ SendStatus
    \/ Listen
    \/ ListenEnd
    \/ AqueryReturn
    \/ Sleep
    \/ Cancel
    \/ RelaySend
    \/ RemoteClose

DaemonSpec == DaemonInit /\ [][DaemonNext]_vars

\* the finally of cmd_run runs once run() has been left
DaemonFairSpec == DaemonSpec /\ WF_vars(Terminate) /\ WF_vars(CmdRunExit)

----------------------------------------------------------------------------
(* The supervisor's methods *)

\* some process answers on the agent's port
Answering == external \/ \E i \in DOMAIN children : children[i] = "serving"

\* the processes started by the supervisor that have not exited
Alive == {i \in DOMAIN children : children[i] # "exited"}

\* a step taken by the supervisor itself
SupervisorStep == EnsureRunning \/ Start \/ WaitCheck \/ WaitProbe \/ Terminate

\* C14 as claimed: when the agent answers the probe, ensure_running()
\* returns true, looks up no executable, starts no process, opens no log,
\* and the supervisor holds no process afterwards.
C14_ProbeSuccessLeavesNoHandle ==
    [][(EnsureRunning /\ Answering) =>
         /\ ret'.ensure_running = "true"
         /\ lpc' = "idle"
         /\ ~looked'
         /\ children' = children
         /\ stderr_file' = stderr_file
         /\ process' = NoProcess]_vars

\* C14: when the agent answers the probe, ensure_running() returns true,
\* looks up no executable, starts no process, opens no log and sends no
\* signal, and leaves the process it holds as it was: none for a
\* supervisor that has started nothing, the process of an earlier start
\* otherwise.
C14_ProbeSuccessLeavesSupervisorAlone ==
    [][(EnsureRunning /\ Answering) =>
         /\ ret'.ensure_running = "true"
         /\ ret'.start = "none"
         /\ lpc' = "idle"
         /\ ~looked'
         /\ children' = children
         /\ stderr_file' = stderr_file
         /\ signals' = signals
         /\ process' = process
         /\ children = <<>> => process' = NoProcess]_vars

\* ensure_running() found the agent answering while the supervisor held
\* the process of an earlier start, and left it held
C14_Witness ==
    /\ call = "ensure_running"
    /\ lpc = "idle"
    /\ ret = [start |-> "none", ensure_running |-> "true"]
    /\ ~looked
    /\ process # NoProcess

C16_TerminateStopsItsProcess ==
    [][Terminate =>
         /\ stderr_file' = "none"
         /\ process' = process
         /\ process \in DOMAIN children => children'[process] = "exited"
         /\ IF process \in DOMAIN children /\ children[process] # "exited"
            THEN /\ <<process, "TERM">> \in signals'
                 /\ signals' \ signals \subseteq
                       {<<process, "TERM">>, <<process, "KILL">>}
            ELSE signals' = signals /\ children' = children]_vars

\* terminate() had to kill the process it held, and closed the log
C16_Witness ==
    /\ call = "terminate"
    /\ process \in DOMAIN children
    /\ <<process, "KILL">> \in signals
    /\ children[process] = "exited"
    /\ stderr_file = "none"

\* C17: every signal the supervisor sends goes to a process it started
\* itself, the one it holds, which is alive; no step of the supervisor
\* stops the agent somebody else started, nor any process but the one a
\* signal was sent to.
C17_SignalsOnlyOwnProcess ==
    /\ [](\A s \in signals : s[1] \in DOMAIN children)
    /\ [][signals' # signals =>
            /\ signals \subseteq signals'
            /\ \A s \in signals' \ signals :
                  /\ s[1] = process
                  /\ process \in DOMAIN children
                  /\ children[process] # "exited"]_vars
    /\ [][SupervisorStep =>
            /\ external' = external
            /\ \A i \in DOMAIN children :
                  children'[i] # children[i] =>
                     i = process /\ <<i, "TERM">> \in signals']_vars

\* the process the supervisor started had exited and another agent had
\* taken the port when the start succeeded; the supervisor gave the
\* process up, and a later terminate() sent nothing
C17_Witness ==
    /\ call = "terminate"
    /\ process = NoProcess
    /\ children # <<>>
    /\ external
    /\ signals = {}

\* C18: with a launcher created, an interruption is possible at every
\* point of the relay loop and makes run() raise; cmd_run then calls
\* terminate() and exits; terminate() is called at no other moment, so it
\* is called exactly once.
C18_InterruptTerminatesOnce ==
    /\ (launcher /\ dpc = "loop" /\ pc = "raised")
          ~> (dpc = "exited" /\ call = "terminate")
    /\ [](dpc = "loop" /\ pc # "raised" => ENABLED Cancel)
    /\ [][(dpc = "loop" /\ pc # "raised" /\ pc' = "raised") =>
            escaped' = "CancelledError" /\ conn' = "none"]_vars
    /\ [][Terminate =>
            /\ launcher /\ dpc = "loop" /\ pc = "raised"
            /\ call # "terminate"
            /\ dpc' = "exited"]_vars
    /\ [][dpc = "exited" => call' = call /\ signals' = signals]_vars
    /\ []((launcher /\ dpc = "exited" /\ pc = "raised") => call = "terminate")

\* the daemon was interrupted in the relay loop, terminated the process it
\* had started and exited
C18_Witness ==
    /\ dpc = "exited"
    /\ escaped = "CancelledError"
    /\ call = "terminate"
    /\ <<1, "TERM">> \in signals
    /\ children = <<"exited">>

\* C19 as claimed: when the daemon has exited, by whatever path of
\* cmd_run, no process it started is alive.
C19_NoChildOutlivesDaemon == dpc = "exited" => Alive = {}

\* C20 as claimed: at any time there is at most one session and at most
\* one live process started by the supervisor.
C20_OneSessionOneChild ==
    /\ conn \in {"none", "open"} \cup CloseCodes
    /\ Cardinality(Alive) <= 1

\* C21: when the start() called by ensure_running() succeeds on a probe
\* and the process it started has exited by then, ensure_running() returns
\* true, the supervisor holds no process any more and the log is closed
\* and cleared; a terminate() of a supervisor that holds no process sends
\* no signal and stops nothing.
C21_ExitedAfterReadyIsCeded ==
    /\ [][(WaitProbe /\ call = "ensure_running" /\ Answering
                     /\ process \in DOMAIN children
                     /\ children[process] = "exited") =>
            /\ ret' = [start |-> "true", ensure_running |-> "true"]
            /\ lpc' = "idle"
            /\ process' = NoProcess
            /\ stderr_file' = "none"
            /\ signals' = signals]_vars
    /\ [][(Terminate /\ process = NoProcess) =>
            /\ signals' = signals
            /\ children' = children
            /\ external' = external
            /\ process' = NoProcess]_vars
    /\ [](process = NoProcess => stderr_file = "none")

\* ensure_running() has just returned true although the process it
\* started has exited: another agent answers, and nothing is held
C21_Witness ==
    /\ call = "ensure_running"
    /\ lpc = "idle"
    /\ ret = [start |-> "true", ensure_running |-> "true"]
    /\ children # <<>>
    /\ Alive = {}
    /\ external
    /\ process = NoProcess
    /\ stderr_file = "none"

\* C22 as claimed: whenever ensure_running() has returned false, for
\* whichever reason the start failed, the captured output of the process
\* has been read and reported.
C22_EveryFailureSurfacesOutput ==
    (call = "ensure_running" /\ lpc = "idle" /\ ret.ensure_running = "false")
        => logged # "none"

----------------------------------------------------------------------------
(* Failures of the tool execution *)

\* the response to a request whose execution failed for another reason
\* than the agent being unreachable
IsGenericFailure(r, request_id) ==
    /\ r.type = "tool_response"
    /\ r.request_id = request_id
    /\ r.success = FALSE
    /\ r.result = None
    /\ r.error # None
    /\ r.error[1] = "Tool execution failed: "

\* C23: on an open websocket, a local_openclaw request whose execution
\* fails otherwise than by the agent being unreachable (the agent answers an
\* error status, does not answer in time, or the arguments are not a
\* mapping) gets one tool_response with its request_id, success false, a
\* null result and an error that begins "Tool execution failed"; and no
\* outcome of a tool execution closes the websocket, changes the backoff or
\* leaves the listen loop.
C23_OtherFailuresReportedGeneric ==
    /\ [][(AqueryReturn /\ conn = "open"
                        /\ answered'.kind \in {"http_error", "timeout"}) =>
            /\ last.tool_name = "local_openclaw"
            /\ Sends
            /\ Appended = <<LastSent'>>
            /\ IsGenericFailure(LastSent', ResponseId(last))]_vars
    /\ [][(Listen /\ conn = "open" /\ IsToolRequest(NextFrame)
                  /\ NextFrame.tool_name = "local_openclaw"
                  /\ ArgumentsGet(NextFrame.arguments).t # "dict") =>
            /\ Sends
            /\ Appended = <<LastSent'>>
            /\ IsGenericFailure(LastSent', ResponseId(NextFrame))]_vars
    /\ [][((AqueryReturn \/ (Listen /\ IsToolRequest(NextFrame)))
              /\ conn = "open") =>
            /\ conn' = "open"
            /\ pc' \in {"recv", "aquery"}
            /\ UNCHANGED <<backoff, escaped, arrived, hist>>
            /\ Len(inbox') \in {Len(inbox), Len(inbox) - 1}]_vars

\* a request whose arguments were a list and a request the agent did not
\* answer in time were both reported as failed on the same websocket
C23_Witness ==
    /\ pc = "recv" /\ conn = "open"
    /\ Len(sent) = 3
    /\ IsGenericFailure(sent[2], "r2")
    /\ IsGenericFailure(sent[3], "abc123")
    /\ answered.kind = "timeout"

----------------------------------------------------------------------------
(* The polling loop of start() *)

\* the process the supervisor holds has exited
HeldExited == process \in DOMAIN children /\ children[process] = "exited"

\* C24: a start() that has launched its process returns: the loop sleeps
\* no more often than the timeout allows, ends with true as soon as a probe
\* is answered, and ends with false when the process is found exited or
\* the deadline has passed; it returns true only from a probe that was
\* answered in an iteration begun before the deadline.
C24_StartTerminates ==
    /\ (lpc # "idle") ~> (lpc = "idle")
    /\ [](ticks <= MaxPolls)
    /\ [](lpc = "probe" => ticks < MaxPolls)
    /\ [][(WaitProbe /\ Answering) =>
            lpc' = "idle" /\ ret'.start = "true"]_vars
    /\ [][(WaitCheck /\ (ticks >= MaxPolls \/ HeldExited)) =>
            lpc' = "idle" /\ ret'.start = "false"]_vars
    /\ [][(lpc # "idle" /\ lpc' = "idle") =>
            (ret'.start = "true" <=>
               (lpc = "probe" /\ Answering /\ ticks < MaxPolls))]_vars

\* a start() gave up at the deadline: it returned false after the last
\* sleep, with the process it launched still starting
C24_Witness ==
    /\ call = "start"
    /\ lpc = "idle"
    /\ ret.start = "false"
    /\ logged = "timeout"
    /\ ticks = MaxPolls
    /\ process \in DOMAIN children
    /\ children[process] = "starting"

----------------------------------------------------------------------------
(* The log of the process *)

\* the call that ended last was a start() or an ensure_running() that
\* returned false
ReturnedFalse ==
    /\ lpc = "idle"
    /\ call \in {"start", "ensure_running"}
    /\ "false" \in {ret.start, ret.ensure_running}

\* C25 as claimed: the log is closed after every start() or
\* ensure_running() that returned false and after every terminate(), and
\* an open log means that a process is held.
C25_LogClosedAfterEveryFailure ==
    /\ (ReturnedFalse \/ (lpc = "idle" /\ call = "terminate"))
          => stderr_file = "none"
    /\ stderr_file = "open" => process \in DOMAIN children

\* C25: an open log means that a process is held; the log is closed after
\* terminate(), when a process is given up, and when start() or
\* ensure_running() returns false after trying to launch (the launch
\* failed, the process exited, or the deadline passed); a start that fails
\* because the executable is not found leaves the log as it was, open if
\* an earlier start had opened it.
C25_OpenLogImpliesHeldProcess ==
    /\ [](stderr_file = "open" => process \in DOMAIN children)
    /\ []((lpc = "idle" /\ call = "terminate") => stderr_file = "none")
    /\ [][(process # NoProcess /\ process' = NoProcess) =>
            stderr_file' = "none"]_vars
    /\ [][(SupervisorStep /\ lpc' = "idle" /\ ret'.start = "false") =>
            IF lpc = "idle" /\ ~exe
            THEN stderr_file' = stderr_file /\ process' = process
            ELSE stderr_file' = "none"]_vars
    /\ []((ReturnedFalse /\ stderr_file = "open") =>
            (logged = "none" /\ looked /\ process \in DOMAIN children))

\* a start() did not find the executable and returned false, leaving open
\* the log of the process an earlier start had launched
C25_Witness ==
    /\ ReturnedFalse
    /\ ~exe
    /\ stderr_file = "open"
    /\ process \in DOMAIN children

====
